---- MODULE Spec2Model ----
(***************************************************************************)
(* BottomTabNavigator and BottomNavigatorTab (react-native-ui-kitten).      *)
(*                                                                          *)
(* Props are records whose DOMAIN holds exactly the props that were         *)
(* supplied: an optional prop that was not given is a field that is not     *)
(* there, as `undefined` is in the source.  Positions of tabs are 0-based   *)
(* as in the source; sequences are 1-based, so the tab at position i is     *)
(* item i + 1 of `children`.  A single child element is a `children` of     *)
(* length 1 (React.Children.map treats both alike).                         *)
(***************************************************************************)
EXTENDS Integers, Sequences, FiniteSets, TLC

VARIABLES
  props,      \* props the owner last supplied to the BottomTabNavigator
  tree,       \* what BottomTabNavigator.render() last returned
  tab,        \* props the owner last supplied to a BottomNavigatorTab used on its own
  event,      \* the event handled last: [kind, index]
  tabCalls,   \* invocations of a tab's onSelect prop made while handling `event`
  navCalls,   \* arguments of the navigator's onSelect invocations made while handling `event`
  threw       \* whether handling `event` raised a TypeError

vars == <<props, tree, tab, event, tabCalls, navCalls, threw>>

----------------------------------------------------------------------------
(* Bounds *)

MaxTabs == 3          \* most children a navigator is given
IndexSlack == 1       \* how far selectedIndex may lie outside 0 .. MaxTabs - 1

----------------------------------------------------------------------------
(* Values the owner can supply *)

\* callbacks are opaque to the components; they are told apart by who wrote them
OwnerOnSelect  == [kind |-> "owner",  index |-> 0]
AuthorOnSelect == [kind |-> "author", index |-> 0]

\* interface BottomNavigatorTabProps: every prop is optional
TabPropsSet ==
  { [title |-> "A"],
    [title |-> "B", selected |-> TRUE],
    [title |-> "A", selected |-> FALSE, onSelect |-> AuthorOnSelect],
    [title |-> "B", onSelect |-> AuthorOnSelect],
    [title |-> "A", selected |-> TRUE, onSelect |-> AuthorOnSelect],
    [title |-> "B", selected |-> FALSE] }

\* the elements an author writes as children of the navigator
ChildElements ==
  { [type |-> "BottomNavigatorTab", props |-> p] :
      p \in { [title |-> "A"],
              [title |-> "B", selected |-> TRUE],
              [title |-> "A", selected |-> FALSE, onSelect |-> AuthorOnSelect] } }

SelectedIndices == (0 - IndexSlack) .. (MaxTabs - 1 + IndexSlack)

IndicatorColors == {"transparent", "blue"}

\* the style the theme hands to the navigator; only the indicator colour varies
ThemedStyle(color) ==
  [ backgroundColor          |-> "white",
    paddingVertical          |-> 4,
    borderTopColor           |-> "grey",
    borderTopWidth           |-> 1,
    indicatorHeight          |-> 4,
    indicatorBackgroundColor |-> color ]

\* StyleSheet.create of the navigator
styles ==
  [ container |-> [flexDirection |-> "row", justifyContent |-> "space-between"],
    indicator |-> [position |-> "absolute"] ]

----------------------------------------------------------------------------
(* BottomTabNavigator *)

defaultProps == [selectedIndex |-> 0]

\* React fills in defaultProps for the props that are undefined
thisProps(p) ==
  [k \in DOMAIN p \cup DOMAIN defaultProps |-> IF k \in DOMAIN p THEN p[k] ELSE defaultProps[k]]

getComponentStyle(style) ==
  [ container |-> [ backgroundColor |-> style.backgroundColor,
                    paddingVertical |-> style.paddingVertical,
                    borderTopColor  |-> style.borderTopColor,
                    borderTopWidth  |-> style.borderTopWidth ],
    indicator |-> [ height          |-> style.indicatorHeight,
                    backgroundColor |-> style.indicatorBackgroundColor ] ]

\* calling the prop `name` of p: a prop that is undefined is not a function
CallProp(p, name, arg) ==
  IF name \in DOMAIN p
    THEN [calls |-> <<[fn |-> p[name], arg |-> arg]>>, threw |-> FALSE]
    ELSE [calls |-> <<>>, threw |-> TRUE]

NoCall == [calls |-> <<>>, threw |-> FALSE]

\* slip: the selected index is reported instead of the pressed one
onChildPress_ReportsSelected(p, index) ==
  IF "onSelect" \in DOMAIN p /\ p.selectedIndex # index
    THEN CallProp(p, "onSelect", p.selectedIndex)
    ELSE NoCall

\* slip: the comparison with selectedIndex is left out
onChildPress_AlwaysReports(p, index) ==
  IF "onSelect" \in DOMAIN p
    THEN CallProp(p, "onSelect", index)
    ELSE NoCall

onChildPress(p, index) ==
  IF "onSelect" \in DOMAIN p /\ p.selectedIndex # index
    THEN CallProp(p, "onSelect", index)
    ELSE NoCall

\* the closure `() => this.onChildPress(index)`
ChildOnSelect(index) == [kind |-> "onChildPress", index |-> index]

\* slip: the element's own props are laid over config
cloneElement_OwnPropsWin(element, config) ==
  LET names == (DOMAIN element.props \cup DOMAIN config) \ {"key"}
      merged == [k \in names |-> IF k \in DOMAIN element.props THEN element.props[k] ELSE config[k]]
  IN  [type |-> element.type, key |-> config.key, props |-> merged]

\* React.cloneElement: key is taken from config, the other entries of config
\* are laid over the element's own props
cloneElement(element, config) ==
  LET names == (DOMAIN element.props \cup DOMAIN config) \ {"key"}
      merged == [k \in names |-> IF k \in DOMAIN config THEN config[k] ELSE element.props[k]]
  IN  [type |-> element.type, key |-> config.key, props |-> merged]

\* slip: the indicator is counted among the positions
renderIndicatorElement_CountsItself(p, positions, style) ==
  [ type  |-> "TabBarIndicator",
    key   |-> 0,
    props |-> [ style            |-> <<style, styles.indicator>>,
                selectedPosition |-> p.selectedIndex,
                positions        |-> positions + 1 ] ]

\* slip: selectedIndex is clamped to the positions there are
renderIndicatorElement_Clamped(p, positions, style) ==
  [ type  |-> "TabBarIndicator",
    key   |-> 0,
    props |-> [ style            |-> <<style, styles.indicator>>,
                selectedPosition |-> IF p.selectedIndex < 0 THEN 0
                                     ELSE IF p.selectedIndex > positions - 1 /\ positions > 0
                                            THEN positions - 1
                                     ELSE p.selectedIndex,
                positions        |-> positions ] ]

renderIndicatorElement(p, positions, style) ==
  [ type  |-> "TabBarIndicator",
    key   |-> 0,
    props |-> [ style            |-> <<style, styles.indicator>>,
                selectedPosition |-> p.selectedIndex,
                positions        |-> positions ] ]

renderTabElement(p, element, index) ==
  cloneElement(element,
    [ key      |-> index,
      style    |-> [flex |-> 1],
      selected |-> (index = p.selectedIndex),
      onSelect |-> ChildOnSelect(index) ])

\* the `undefined` that stands in the indicator's place when it is not shown
Undefined == [type |-> "undefined"]

\* slip: the test of the indicator colour is inverted
renderComponentChildren_Inverted(p, items, style) ==
  LET indicator == style.indicator
      tabElements == [j \in 1..Len(items) |-> renderTabElement(p, items[j], j - 1)]
      shouldShowIndicator == indicator.backgroundColor = "transparent"
  IN  << IF shouldShowIndicator
           THEN renderIndicatorElement(p, Len(tabElements), indicator)
           ELSE Undefined >> \o tabElements

renderComponentChildren(p, items, style) ==
  LET indicator == style.indicator
      tabElements == [j \in 1..Len(items) |-> renderTabElement(p, items[j], j - 1)]
      shouldShowIndicator == indicator.backgroundColor # "transparent"
  IN  << IF shouldShowIndicator
           THEN renderIndicatorElement(p, Len(tabElements), indicator)
           ELSE Undefined >> \o tabElements

render(p) ==
  LET componentStyle == getComponentStyle(p.themedStyle)
      componentChildren == renderComponentChildren(p, p.children, componentStyle)
  IN  [ type     |-> "View",
        style    |-> <<componentStyle.container, styles.container>>,
        children |-> componentChildren ]

----------------------------------------------------------------------------
(* BottomNavigatorTab *)

\* slip: selected is passed on as it is
NotSelected_AsIs(p) == "selected" \in DOMAIN p /\ p.selected

\* !this.props.selected: undefined is falsy
NotSelected(p) == ~("selected" \in DOMAIN p /\ p.selected)

\* slip: onSelect is called without the check that it is there
onPress_Unchecked(p) == CallProp(p, "onSelect", NotSelected(p))

onPress(p) ==
  IF "onSelect" \in DOMAIN p
    THEN CallProp(p, "onSelect", NotSelected(p))
    ELSE NoCall

----------------------------------------------------------------------------
(* What is on screen *)

\* the tab elements of a rendered navigator, in order (the first child is the
\* indicator or its undefined placeholder)
TabsOf(t) == Tail(t.children)

IndicatorShown(t) == t.children[1].type = "TabBarIndicator"

\* running the onSelect a pressed tab was given: the injected closure calls
\* onChildPress, anything else is code of the owner
RunTabCalls(p, calls) ==
  IF calls # <<>> /\ calls[1].fn.kind = "onChildPress"
    THEN onChildPress(p, calls[1].fn.index)
    ELSE NoCall

NavArgs(calls) == [j \in 1..Len(calls) |-> calls[j].arg]

----------------------------------------------------------------------------
(* Actions *)

NoEvent(kind) == [kind |-> kind, index |-> 0 - 1]

Rendered(p, kind) ==
  /\ props' = p
  /\ tree' = render(thisProps(p))
  /\ event' = NoEvent(kind)
  /\ tabCalls' = <<>>
  /\ navCalls' = <<>>
  /\ threw' = FALSE
  /\ UNCHANGED tab

\* the owner renders the navigator with a selectedIndex, or with none
SetSelectedIndex ==
  \/ \E i \in SelectedIndices :
       Rendered([k \in DOMAIN props \cup {"selectedIndex"} |->
                   IF k = "selectedIndex" THEN i ELSE props[k]], "render")
  \/ Rendered([k \in DOMAIN props \ {"selectedIndex"} |-> props[k]], "render")

\* the owner renders the navigator with an onSelect, or with none
SetOnSelect ==
  \/ Rendered([k \in DOMAIN props \cup {"onSelect"} |->
                 IF k = "onSelect" THEN OwnerOnSelect ELSE props[k]], "render")
  \/ Rendered([k \in DOMAIN props \ {"onSelect"} |-> props[k]], "render")

\* the theme changes the indicator colour
SetThemedStyle ==
  \E c \in IndicatorColors :
    Rendered([props EXCEPT !.themedStyle = ThemedStyle(c)], "render")

\* the owner renders the navigator with one more tab, or one less
SetChildren ==
  \/ /\ Len(props.children) < MaxTabs
     /\ \E c \in ChildElements :
          Rendered([props EXCEPT !.children = Append(@, c)], "render")
  \/ /\ Len(props.children) > 0
     /\ Rendered([props EXCEPT !.children = SubSeq(@, 1, Len(@) - 1)], "render")

\* slip: the navigator keeps the pressed position and renders it as selected
PressChild_KeepsOwnSelection(i) ==
  /\ i \in 0 .. (Len(TabsOf(tree)) - 1)
  /\ LET pressed == onPress(TabsOf(tree)[i + 1].props)
         child == RunTabCalls(thisProps(props), pressed.calls)
     IN  /\ tabCalls' = pressed.calls
         /\ navCalls' = NavArgs(child.calls)
         /\ threw' = (pressed.threw \/ child.threw)
  /\ event' = [kind |-> "press", index |-> i]
  /\ tree' = render([thisProps(props) EXCEPT !.selectedIndex = i])
  /\ UNCHANGED <<props, tab>>

\* the user presses the tab at position i of the rendered navigator
PressChild(i) ==
  /\ i \in 0 .. (Len(TabsOf(tree)) - 1)
  /\ LET pressed == onPress(TabsOf(tree)[i + 1].props)
         child == RunTabCalls(thisProps(props), pressed.calls)
     IN  /\ tabCalls' = pressed.calls
         /\ navCalls' = NavArgs(child.calls)
         /\ threw' = (pressed.threw \/ child.threw)
  /\ event' = [kind |-> "press", index |-> i]
  /\ UNCHANGED <<props, tree, tab>>

\* the owner renders a BottomNavigatorTab on its own
RenderTab ==
  \E p \in TabPropsSet :
    /\ tab' = p
    /\ event' = NoEvent("renderTab")
    /\ tabCalls' = <<>>
    /\ navCalls' = <<>>
    /\ threw' = FALSE
    /\ UNCHANGED <<props, tree>>

\* the user presses the BottomNavigatorTab that stands on its own
PressTab ==
  /\ LET pressed == onPress(tab)
     IN  /\ tabCalls' = pressed.calls
         /\ threw' = pressed.threw
  /\ navCalls' = <<>>
  /\ event' = NoEvent("pressTab")
  /\ UNCHANGED <<props, tree, tab>>

InitProps == [children |-> <<>>, themedStyle |-> ThemedStyle("blue")]

Init ==
  /\ props = InitProps
  /\ tree = render(thisProps(InitProps))
  /\ tab = [title |-> "A"]
  /\ event = NoEvent("mount")
  /\ tabCalls = <<>>
  /\ navCalls = <<>>
  /\ threw = FALSE

Next ==
  \/ SetSelectedIndex
  \/ SetOnSelect
  \/ SetThemedStyle
  \/ SetChildren
  \/ \E i \in 0 .. (MaxTabs - 1) : PressChild(i)
  \/ RenderTab
  \/ PressTab

Spec == Init /\ [][Next]_vars
----------------------------------------------------------------------------
(* Properties *)

P == thisProps(props)
Tabs == TabsOf(tree)
TabCount == Len(props.children)
Pressed == event.kind = "press"
HasOnSelect == "onSelect" \in DOMAIN props

\* the positions of the tabs a rendered navigator marks selected
SelectedTabs(t) == { j - 1 : j \in { k \in 1..Len(TabsOf(t)) : TabsOf(t)[k].props.selected } }

\* where a rendered navigator puts the indicator, if it shows one
IndicatorAt(t) == IF IndicatorShown(t) THEN {t.children[1].props.selectedPosition} ELSE {}

\* C1: when the navigator has an onSelect, pressing the tab at position i
\* while selectedIndex # i invokes that onSelect exactly once, with i.
C1_PressReportsPosition ==
  (Pressed /\ HasOnSelect /\ P.selectedIndex # event.index)
    => /\ navCalls = <<event.index>>
       /\ ~threw

C1_Witness ==
  /\ Pressed /\ HasOnSelect
  /\ event.index = 2
  /\ P.selectedIndex = 0
  /\ navCalls = <<2>>
  /\ tabCalls # <<>> /\ tabCalls[1].arg = TRUE

\* C2: in every render the tab at position i is given selected = TRUE iff
\* i = selectedIndex, whatever selected its author wrote; so for a
\* selectedIndex within 0 .. n-1 exactly the tab at selectedIndex is selected.
C2_SelectedIffAtIndex ==
  /\ Len(Tabs) = TabCount
  /\ \A j \in 1..Len(Tabs) : Tabs[j].props.selected = (j - 1 = P.selectedIndex)
  /\ (P.selectedIndex \in 0 .. (TabCount - 1)) => SelectedTabs(tree) = {P.selectedIndex}

C2_Witness ==
  /\ TabCount = 3
  /\ P.selectedIndex = 1
  /\ "selected" \in DOMAIN props.children[1].props /\ props.children[1].props.selected
  /\ "selected" \in DOMAIN props.children[2].props /\ ~props.children[2].props.selected
  /\ "selected" \notin DOMAIN props.children[3].props
  /\ SelectedTabs(tree) = {1}

\* C3: whenever the indicator is rendered, its selectedPosition is the
\* navigator's selectedIndex, the index whose tab is marked selected, and its
\* positions is the number of rendered tabs.
C3_IndicatorSynchronized ==
  IndicatorShown(tree) =>
    /\ tree.children[1].props.selectedPosition = P.selectedIndex
    /\ tree.children[1].props.positions = Len(Tabs)
    /\ \A j \in 1..Len(Tabs) :
         Tabs[j].props.selected = (j - 1 = tree.children[1].props.selectedPosition)

C3_Witness ==
  /\ IndicatorShown(tree)
  /\ TabCount = 3
  /\ tree.children[1].props.positions = 3
  /\ tree.children[1].props.selectedPosition = 2
  /\ SelectedTabs(tree) = {2}

\* C4: pressing a tab on its own that has no onSelect, and pressing any tab of
\* a navigator that has no onSelect, invokes no callback of the owner or of the
\* tab's author, raises no error and leaves what is rendered as it was.
C4_Step ==
  /\ (event'.kind = "pressTab" /\ "onSelect" \notin DOMAIN tab)
       => /\ tabCalls' = <<>> /\ navCalls' = <<>>
          /\ ~threw'
          /\ tab' = tab /\ tree' = tree
  /\ (event'.kind = "press" /\ "onSelect" \notin DOMAIN props)
       => /\ navCalls' = <<>>
          /\ \A j \in 1..Len(tabCalls') : tabCalls'[j].fn.kind = "onChildPress"
          /\ ~threw'
          /\ props' = props /\ tree' = tree
          /\ SelectedTabs(tree') = SelectedTabs(tree)

C4_OptionalCallbacks == [][C4_Step]_vars

\* both cases have happened: the navigator without onSelect was pressed on a
\* tab whose author gave it an onSelect, and the tab on its own has none
C4_Witness ==
  /\ Pressed /\ ~HasOnSelect
  /\ "onSelect" \in DOMAIN props.children[event.index + 1].props
  /\ P.selectedIndex # event.index
  /\ navCalls = <<>> /\ ~threw
  /\ "onSelect" \notin DOMAIN tab

\* C5: pressing a BottomNavigatorTab that has an onSelect invokes it exactly
\* once with the negation of the tab's selected prop (TRUE when selected is
\* not given), and the press does not change the tab's props.
C5_Step ==
  /\ (event'.kind = "pressTab" /\ "onSelect" \in DOMAIN tab)
       => /\ tabCalls' = << [ fn  |-> tab.onSelect,
                              arg |-> IF "selected" \in DOMAIN tab THEN ~tab.selected ELSE TRUE ] >>
          /\ ~threw'
          /\ tab' = tab
  /\ (event'.kind = "press")
       => /\ tabCalls' = << [ fn  |-> TabsOf(tree)[event'.index + 1].props.onSelect,
                              arg |-> ~TabsOf(tree)[event'.index + 1].props.selected ] >>
          /\ tree' = tree

C5_TabReportsNegation == [][C5_Step]_vars

C5_Witness ==
  /\ event.kind = "pressTab"
  /\ "onSelect" \in DOMAIN tab
  /\ "selected" \notin DOMAIN tab
  /\ tabCalls = <<[fn |-> AuthorOnSelect, arg |-> TRUE]>>

\* C6: a selectedIndex outside 0 .. n-1 is rendered as it is: all n tabs are
\* rendered and none is selected, the indicator is given the out-of-range
\* value, and pressing tab i still reports i through onSelect.
C6_OutOfRangeNotEnforced ==
  (P.selectedIndex \notin 0 .. (TabCount - 1)) =>
    /\ tree.type = "View"
    /\ Len(Tabs) = TabCount
    /\ SelectedTabs(tree) = {}
    /\ IndicatorShown(tree) => tree.children[1].props.selectedPosition = P.selectedIndex
    /\ IndicatorShown(tree) <=> props.themedStyle.indicatorBackgroundColor # "transparent"
    /\ (Pressed /\ HasOnSelect) => (navCalls = <<event.index>> /\ ~threw)

C6_Witness ==
  /\ P.selectedIndex < 0
  /\ TabCount = 3
  /\ IndicatorShown(tree)
  /\ IndicatorAt(tree) = {P.selectedIndex}
  /\ Pressed /\ HasOnSelect
  /\ navCalls = <<1>>

\* C7: pressing the tab at the navigator's selectedIndex never invokes the
\* navigator's onSelect, though the tab fires the onSelect it was injected.
C7_ReselectSuppressed ==
  (Pressed /\ event.index = P.selectedIndex) =>
    /\ navCalls = <<>>
    /\ tabCalls = <<[fn |-> ChildOnSelect(event.index), arg |-> FALSE]>>
    /\ ~threw

C7_Witness ==
  /\ Pressed /\ HasOnSelect
  /\ event.index = 1
  /\ P.selectedIndex = 1
  /\ navCalls = <<>>
  /\ Len(tabCalls) = 1

OtherColor(c) == IF c = "transparent" THEN "blue" ELSE "transparent"

\* C8: the indicator is rendered iff the themed indicator background colour is
\* not 'transparent'; when rendered it comes first and the tabs follow in the
\* order of the children; the tabs, their selected flags and their callbacks
\* are the same whether or not it is rendered.
C8_IndicatorOptional ==
  /\ IndicatorShown(tree) <=> props.themedStyle.indicatorBackgroundColor # "transparent"
  /\ Len(tree.children) = TabCount + 1
  /\ \A j \in 1..TabCount :
       /\ tree.children[j + 1].type = "BottomNavigatorTab"
       /\ tree.children[j + 1].key = j - 1
       /\ tree.children[j + 1].props.title = props.children[j].props.title
  /\ Tabs = TabsOf(render([P EXCEPT !.themedStyle =
                             ThemedStyle(OtherColor(@.indicatorBackgroundColor))]))

C8_Witness ==
  /\ ~IndicatorShown(tree)
  /\ TabCount = 3
  /\ props.children[1].props.title # props.children[2].props.title
  /\ props.children[2].props.title = props.children[3].props.title
  /\ SelectedTabs(tree) = {1}

\* the selection the owner's props ask for: selectedIndex, 0 when not supplied
SuppliedIndex(p) == IF "selectedIndex" \in DOMAIN p THEN p.selectedIndex ELSE 0

\* C9: the navigator keeps no selection of its own: after every step the tab
\* rendered selected and the place of the indicator are those of the
\* selectedIndex the owner last supplied (0 when none), and a press leaves
\* them as they were.
C9_Step ==
  /\ SelectedTabs(tree') = {SuppliedIndex(props')} \cap (0 .. (Len(props'.children) - 1))
  /\ IndicatorAt(tree') \subseteq {SuppliedIndex(props')}
  /\ (event'.kind \in {"press", "pressTab"})
       => /\ SelectedTabs(tree') = SelectedTabs(tree)
          /\ IndicatorAt(tree') = IndicatorAt(tree)
          /\ props' = props

C9_NoOwnSelectionState == [][C9_Step]_vars

C9_Witness ==
  /\ Pressed /\ HasOnSelect
  /\ "selectedIndex" \notin DOMAIN props
  /\ navCalls = <<2>>
  /\ SelectedTabs(tree) = {0}
  /\ IndicatorAt(tree) = {0}

====
